---------------------------- MODULE Spec2Model ----------------------------
(***************************************************************************)
(* PhotoOrg: the concurrent ingestion pipeline.                            *)
(*                                                                         *)
(* One run of main() (src/PhotoOrg.py) over a source tree: the scanner     *)
(* (_collect_files), the thread pool of _process_files_parallel, the       *)
(* per-file pipeline (_process_single_file, _organize_file, _is_duplicate, *)
(* FileUtils.safe_copy), the tracking store (DatabaseManager) and the      *)
(* final report.  Threads are interleaved at every access to shared state  *)
(* (store, destination tree, connection table, run counters); steps that   *)
(* touch only a thread's locals or the read-only source tree are merged    *)
(* into the neighbouring step.  SpecRerun repeats main() over the same      *)
(* source, database file and destination.                                  *)
(***************************************************************************)
EXTENDS Naturals, Sequences, FiniteSets

(***************************************************************************)
(* Bounds of the model.                                                    *)
(***************************************************************************)
MaxItems   == 3     \* items under the source root in one run
MaxWorkers == 2     \* largest configured max_workers
MaxFaults  == 1     \* I/O faults (read, copy, store, connect) the environment injects
MaxRuns    == 2     \* consecutive runs of main() over the same source

(***************************************************************************)
(* The source tree.  An item is named by its id; its path, kind, content   *)
(* and the date its metadata or name carries are given by ItemOf.          *)
(* content: the digest of the file's bytes; date: what                     *)
(* DateExtractor.extract_date returns, None when no method finds a date.   *)
(***************************************************************************)
None == <<>>

Universe == 1..7

ItemOf(i) ==
    CASE i = 1 -> [parts |-> <<"a.jpg">>,         isdir |-> FALSE, content |-> 1, date |-> <<"2020", "05">>]
      [] i = 2 -> [parts |-> <<"b.jpg">>,         isdir |-> FALSE, content |-> 1, date |-> None]
      [] i = 3 -> [parts |-> <<"c.txt">>,         isdir |-> FALSE, content |-> 3, date |-> None]
      [] i = 4 -> [parts |-> <<"sub", "a.jpg">>,  isdir |-> FALSE, content |-> 2, date |-> <<"2020", "05">>]
      [] i = 5 -> [parts |-> <<"m.MP4">>,         isdir |-> FALSE, content |-> 1, date |-> None]
      [] i = 6 -> [parts |-> <<".hid", "h.jpg">>, isdir |-> FALSE, content |-> 2, date |-> None]
      [] i = 7 -> [parts |-> <<"sub">>,           isdir |-> TRUE,  content |-> 0, date |-> None]

\* pathlib on the segments of the model: Path.suffix, Path.stem,
\* str.startswith('.') and str.lower() of a suffix.
SuffixOf(seg) ==
    CASE seg \in {"a.jpg", "b.jpg", "h.jpg"} -> ".jpg"
      [] seg = "c.txt" -> ".txt"
      [] seg = "m.MP4" -> ".MP4"
      [] OTHER -> ""

StemOf(seg) ==
    CASE seg = "a.jpg" -> "a"
      [] seg = "b.jpg" -> "b"
      [] seg = "h.jpg" -> "h"
      [] seg = "c.txt" -> "c"
      [] seg = "m.MP4" -> "m"
      [] OTHER -> seg

StartsWithDot(seg) == seg \in {".hid"}

Lower(sfx) == IF sfx = ".MP4" THEN ".mp4" ELSE sfx

Last(s) == s[Len(s)]

\* file_path.name, split as pathlib splits it; ctr holds the counters
\* safe_copy has appended ("a__1.jpg" is stem "a", ctr <<1>>, suffix ".jpg").
NameOf(i) ==
    [stem   |-> StemOf(Last(ItemOf(i).parts)),
     ctr    |-> <<>>,
     suffix |-> SuffixOf(Last(ItemOf(i).parts))]

(***************************************************************************)
(* Configuration (config.yaml as main passes it to FileProcessor).         *)
(***************************************************************************)
supported_extensions == {".jpg", ".mp4"}
image_extensions     == {".jpg"}
video_extensions     == {".mp4"}
exclude_hidden_dirs  == TRUE
vacuum_on_completion == TRUE

MainThread == 0

Threads == 0..MaxWorkers

\* The locks of a FileProcessor (file_processor.py lines 71-75) and the one
\* of its DatabaseManager (database_manager.py line 29); Free: no holder.
LockNames == {"_db_lock", "_connection_lock", "_progress_lock", "_global_lock"}

Free == 0 - 1

NoConn == [kind |-> "none", owner |-> 0]

MemConn == [kind |-> "mem", owner |-> 0]

FileConn(t) == [kind |-> "file", owner |-> t]

NoName == [stem |-> "", ctr |-> <<>>, suffix |-> ""]

VARIABLES
    mode,              \* args.mode: "fresh" or "merge"
    dry_run,           \* args.dry_run
    has_config,        \* whether the FileProcessor instance carries attribute `config`
    max_workers,       \* FileProcessor.max_workers
    all_items,         \* list(source_dir.rglob("*")), in the order the walk yields
    exclude_patterns,  \* FileProcessor.exclude_patterns
    run,               \* number of the current run of main()
    earlier,           \* how the runs before the current one ended
    config,            \* config.yaml and the two directories it names, as validate_config sees them
    stats_call,        \* a get_statistics call of another thread: position and results
    pending,           \* per connection: the rows of its open transaction, not yet committed
    locks,             \* per lock: the thread that holds it, or Free
    create_pc,         \* per thread calling create_db directly: its position in create_db
    pcMain,            \* position of the main thread in main()
    scanned,           \* items of all_items the loop of _collect_files has handled
    files_to_process,  \* _collect_files: the supported files found, in order
    unsupported_files, \* _collect_files: its local counter
    stats,             \* FileProcessor.stats
    completed,         \* _process_files_parallel: its local counter
    queue,             \* work items submitted to the executor and not yet started
    future,            \* per submitted file: the state of its future
    yielded,           \* futures as_completed has already yielded
    wpc,               \* per worker thread: its position in _process_single_file
    wloc,              \* per worker thread: the locals of the file it processes
    connections,       \* FileProcessor._connections: thread -> handle
    closed,            \* handles on which close() has been called
    initialized,       \* DatabaseManager._initialized
    schema,            \* table files exists in the database
    store,             \* rows of table files, in insertion (id) order
    report,            \* what generate_final_report obtained from get_statistics
    destExists,        \* the destination root exists
    dirs,              \* directories under the destination root
    destFiles,         \* files under the destination root
    faults,            \* I/O faults met so far: the file and the call that failed
    cancelled,         \* the operator interrupted the run (KeyboardInterrupt)
    fatal,             \* an exception reached main()'s handler
    vacuumed           \* calls of cleanup_database that reached VACUUM

vars == <<mode, dry_run, has_config, max_workers, all_items, exclude_patterns, run,
          earlier, config, stats_call, pending, locks, create_pc, pcMain, scanned,
          files_to_process, unsupported_files, stats, completed, queue, future,
          yielded, wpc, wloc, connections, closed, initialized, schema, store, report,
          destExists, dirs, destFiles, faults, cancelled, fatal, vacuumed>>

Workers == 1..max_workers

Range(s) == {s[k] : k \in 1..Len(s)}

\* Injective sequences over S of length at most n.
InjSeqs(S, n) ==
    UNION {{s \in [1..k -> S] : \A a, b \in 1..k : a # b => s[a] # s[b]} : k \in 0..n}

\* A walk lists a file under sub/ only together with the directory sub, and
\* lists the entries in directory order: the ids are numbered in that order.
IsTree(s) ==
    /\ (4 \in Range(s)) => (7 \in Range(s))
    /\ \A a, b \in 1..Len(s) : a < b => s[a] < s[b]

ZeroStats ==
    [total_files |-> 0, processed_files |-> 0, duplicate_files |-> 0,
     error_files |-> 0, unsupported_files |-> 0,
     photos_organized |-> 0, videos_organized |-> 0]

NoReport == [made |-> FALSE, general |-> ZeroStats, yearly |-> {}]

\* No call of get_statistics by another thread is under way.
NoCall == [pc |-> "none", general |-> ZeroStats, yearly |-> {}]

IdleLoc ==
    [file |-> 0, hash |-> 0, year |-> "", month |-> "", media_type |-> "",
     is_duplicate |-> FALSE, dest_dir |-> <<>>, final_name |-> NoName, steps |-> <<>>]

\* A file left in the destination by an earlier organisation.
OldFile == [dir |-> <<"PHOTO", "2020", "05">>, name |-> NameOf(1), content |-> 1, src |-> 0]

Ancestors(d) == {SubSeq(d, 1, k) : k \in 1..Len(d)}

ProcessState ==
    /\ pcMain = "validate"
    /\ locks = [l \in LockNames |-> Free]
    /\ create_pc = [t \in Threads |-> "idle"]
    /\ scanned = 0
    /\ files_to_process = <<>>
    /\ unsupported_files = 0
    /\ stats = ZeroStats
    /\ completed = 0
    /\ queue = <<>>
    /\ future = [f \in Universe |-> "none"]
    /\ yielded = {}
    /\ wpc = [w \in 1..MaxWorkers |-> "idle"]
    /\ wloc = [w \in 1..MaxWorkers |-> IdleLoc]
    /\ connections = [t \in Threads |-> NoConn]
    /\ closed = {}
    /\ initialized = FALSE
    /\ report = NoReport
    /\ cancelled = FALSE
    /\ fatal = FALSE
    /\ vacuumed = 0

\* A key that config.yaml does not hold, or os.cpu_count() returning None.
Unset == 0 - 100

\* The section parallel_processing of config.yaml with no key set;
\* cpu_multiplier is kept in halves (cpu_multiplier_x2 = 3 is 1.5).
NoParallel == [max_workers |-> Unset, cpu_multiplier_x2 |-> Unset, max_workers_limit |-> Unset]

\* A config.yaml that validate_config accepts; cpu_count is what
\* os.cpu_count() returns on the machine.
ValidConfig ==
    [keys |-> TRUE, source |-> "dir", relation |-> "disjoint",
     parallel |-> NoParallel, cpu_count |-> Unset]

\* The configurations of the model: the valid one and those that depart from
\* it in one respect.  keys: all the required keys are present; source: what
\* the source path is; relation: how the resolved destination path lies to
\* the resolved source path.
Configs ==
    {ValidConfig}
    \cup {[ValidConfig EXCEPT !.keys = FALSE]}
    \cup {[ValidConfig EXCEPT !.source = k] : k \in {"missing", "file"}}
    \cup {[ValidConfig EXCEPT !.relation = r] :
              r \in {"same", "dest_in_source", "source_in_dest"}}

\* The first run: the command line, the source tree, an empty database and
\* a destination that is absent or holds one file.
\* FileProcessor.__init__ takes `config` and does not keep it: the instance
\* main() builds has no attribute `config` (has_config = FALSE) and line 314
\* raises AttributeError for every file.  has_config = TRUE is an instance
\* whose owner has set the attribute; it lets the steps after line 314 run.
\* exclude_patterns is empty (the default) or holds a pattern that occurs in
\* a path of the source; a pattern that occurs in no path excludes nothing.
\* max_workers is the value config.yaml sets in parallel_processing.
\* A source that holds the destination, or is the destination, implies that
\* the destination exists.
Init ==
    /\ mode \in {"fresh", "merge"}
    /\ dry_run \in BOOLEAN
    /\ has_config \in BOOLEAN
    /\ max_workers \in 1..MaxWorkers
    /\ all_items \in {s \in InjSeqs(Universe, MaxItems) : IsTree(s)}
    /\ exclude_patterns \in (IF 7 \in Range(all_items) THEN {{}, {"sub"}} ELSE {{}})
    /\ run = 1
    /\ earlier = <<>>
    /\ stats_call = NoCall
    /\ pending = [t \in Threads |-> <<>>]
    /\ faults = {}
    /\ store = <<>>
    /\ schema = FALSE
    /\ destExists \in BOOLEAN
    /\ config \in {[c EXCEPT !.parallel.max_workers = max_workers] :
                       c \in {d \in Configs : d.relation \in {"same", "source_in_dest"} => destExists}}
    /\ destFiles = IF destExists THEN {OldFile} ELSE {}
    /\ dirs = UNION {Ancestors(f.dir) : f \in destFiles}
    /\ ProcessState

params == <<mode, dry_run, has_config, max_workers, all_items, exclude_patterns, run, earlier,
           config>>

scanv == <<scanned, files_to_process, unsupported_files>>

poolv == <<queue, future, wpc, wloc>>

lockv == <<locks, create_pc>>

\* A lock that never makes a thread wait.
CanAcquire_Always(lock) == TRUE

\* `with lock:` entered by thread t: the thread blocks until the lock is
\* free, and then holds it.
CanAcquire(lock) == locks[lock] = Free

Acquire(lock, t) == [locks EXCEPT ![lock] = t]

\* The end of the with-block, on either exit.
Release(lk, lock) == [lk EXCEPT ![lock] = Free]

orchv == <<stats, completed, yielded>>

connv == <<connections, closed, initialized, schema>>

fsv == <<destExists, dirs, destFiles>>

\* The environment may make one more I/O call fail.
MayFault == Cardinality(faults) < MaxFaults

Outcomes == {TRUE} \cup (IF MayFault THEN {FALSE} ELSE {})

Fault(f, site) == [file |-> f, site |-> site]

(***************************************************************************)
(* Pure helpers of FileProcessor.                                          *)
(***************************************************************************)
\* `pattern in str(path)` for the patterns and the paths of the model.
OccursIn(pattern, i) ==
    \E k \in 1..Len(ItemOf(i).parts) : pattern = "sub" /\ ItemOf(i).parts[k] = "sub"

\* A scanner that skips nothing.
ShouldSkipPath_Never(i) == FALSE

\* _should_skip_path
ShouldSkipPath(i) ==
    \/ exclude_hidden_dirs /\ \E k \in 1..Len(ItemOf(i).parts) : StartsWithDot(ItemOf(i).parts[k])
    \/ \E pattern \in exclude_patterns : OccursIn(pattern, i)

IsSupportedFile(i) == Lower(NameOf(i).suffix) \in supported_extensions

MediaType(i) == IF Lower(NameOf(i).suffix) \in image_extensions THEN "PHOTO" ELSE "VIDEO"

\* Lines 322-325 of _process_single_file: the date, or the Unknown sentinels.
YearOf(i) == IF ItemOf(i).date # None THEN ItemOf(i).date[1] ELSE "Unknown"

MonthOf(i) == IF ItemOf(i).date # None THEN ItemOf(i).date[2] ELSE "Unknown"

\* A placement that files every non-duplicate under <kind>/<year>/<month>.
DestDir_Dated(media_type, year, month) == <<media_type, year, month>>

\* Lines 369-372 of _organize_file.
DestDir(media_type, year, month) ==
    IF year = "Unknown" \/ month = "Unknown"
    THEN <<"ToReview", media_type>>
    ELSE <<media_type, year, month>>

\* f"{media_type}_DUPLICATES"
DuplicateDir(media_type) ==
    IF media_type = "PHOTO" THEN <<"PHOTO_DUPLICATES">> ELSE <<"VIDEO_DUPLICATES">>

\* _is_duplicate: SELECT COUNT(*) FROM files WHERE hash = ?  (NULL, here 0,
\* equals nothing in SQL, itself included).
CountHash(rows, h) == Cardinality({k \in 1..Len(rows) : h # 0 /\ rows[k].hash = h})

\* A lookup that finds a match whenever the table holds a row with a digest.
IsDuplicate_AnyDigest(rows, h) ==
    h # 0 /\ \E k \in 1..Len(rows) : rows[k].hash # 0

IsDuplicate(rows, h) == CountHash(rows, h) > 0

(***************************************************************************)
(* DatabaseManager.                                                        *)
(***************************************************************************)
\* A row that names the main thread, whichever thread writes it.
FileRow_MainThread(path, hash, year, month, media_type, status, dir, name, thread) ==
    [original_path |-> path, hash |-> hash, year |-> year, month |-> month,
     media_type |-> media_type, status |-> status, destination_path |-> dir,
     final_name |-> name, processing_thread |-> MainThread, notes |-> "NULL",
     created_at |-> run]

\* The row insert_file writes (record + thread id); columns it leaves out are
\* NULL.  created_at, the insertion time, is kept as the number of the run.
FileRow(path, hash, year, month, media_type, status, dir, name, thread) ==
    [original_path |-> path, hash |-> hash, year |-> year, month |-> month,
     media_type |-> media_type, status |-> status, destination_path |-> dir,
     final_name |-> name, processing_thread |-> thread, notes |-> "NULL",
     created_at |-> run]

\* A row for an unprocessed file that carries the digest of the file.
UnprocessedRow_Hashed(path, status, notes, thread) ==
    [original_path |-> path, hash |-> ItemOf(path).content, year |-> "NULL", month |-> "NULL",
     media_type |-> "NULL", status |-> status, destination_path |-> <<>>,
     final_name |-> NoName, processing_thread |-> thread, notes |-> notes,
     created_at |-> run]

\* The row insert_unprocessed_file writes.
UnprocessedRow(path, status, notes, thread) ==
    [original_path |-> path, hash |-> 0, year |-> "NULL", month |-> "NULL",
     media_type |-> "NULL", status |-> status, destination_path |-> <<>>,
     final_name |-> NoName, processing_thread |-> thread, notes |-> notes,
     created_at |-> run]

\* The connection thread t works on: the one memory connection in a dry
\* run, its own otherwise.
ConnKey(t) == IF dry_run THEN MainThread ELSE t

\* How a call of insert_file or insert_unprocessed_file can go: the INSERT
\* and the commit succeed, or one of them raises.
InsertOutcomes == {"ok"} \cup (IF MayFault THEN {"execute", "commit"} ELSE {})

\* A rollback that leaves the open transaction as it is.
Rollback_Keep(p) == p

\* conn.rollback(): the rows of the open transaction are discarded.
Rollback(p) == <<>>

\* insert_file and insert_unprocessed_file (lines 145-179) on a connection
\* whose open transaction holds the rows p, the table holding rows:
\* cursor.execute(INSERT), conn.commit(); except: conn.rollback(); raise.
InsertResult(rows, p, row, outcome) ==
    LET executed == IF outcome = "execute" THEN p ELSE Append(p, row) IN
    IF outcome = "ok"
    THEN [rows |-> rows \o executed, pending |-> <<>>, raised |-> FALSE]
    ELSE [rows |-> rows, pending |-> Rollback(executed), raised |-> TRUE]

\* COUNT(CASE WHEN status ... THEN 1 END) and COUNT(CASE WHEN media_type = ...).
CountStatus(rows, statuses) == Cardinality({k \in 1..Len(rows) : rows[k].status \in statuses})

CountMedia(rows, media_type) == Cardinality({k \in 1..Len(rows) : rows[k].media_type = media_type})

CountYear(rows, year) == Cardinality({k \in 1..Len(rows) : rows[k].year = year})

\* get_statistics: the first query.
GeneralStats(rows) ==
    [total_files       |-> Len(rows),
     processed_files   |-> CountStatus(rows, {"copied", "simulated"}),
     duplicate_files   |-> CountStatus(rows, {"duplicate"}),
     error_files       |-> CountStatus(rows, {"error"}),
     unsupported_files |-> CountStatus(rows, {"unsupported"}),
     photos_organized  |-> CountMedia(rows, "PHOTO"),
     videos_organized  |-> CountMedia(rows, "VIDEO")]

\* get_statistics: the second query, as the set of (year, count) pairs.
YearlyStats(rows) ==
    {<<y, CountYear(rows, y)>> :
        y \in {rows[k].year : k \in 1..Len(rows)} \ {"Unknown", "NULL"}}

\* get_statistics: the queries run on _memory_db_conn or on a connection of
\* its own; any exception (closed connection, missing table) gives _empty_stats.
GetStatistics ==
    IF (dry_run /\ MemConn \in closed) \/ ~schema
    THEN [made |-> TRUE, general |-> ZeroStats, yearly |-> {}]
    ELSE [made |-> TRUE, general |-> GeneralStats(store), yearly |-> YearlyStats(store)]

\* _get_thread_connection for thread t; ok: create_db's connect succeeded.
\* create_db hands out the one memory connection, or a new connection, and
\* initialises the schema the first time.
GetThreadConnection(t, ok) ==
    IF connections[t] # NoConn \/ ~ok
    THEN UNCHANGED <<connections, initialized, schema>>
    ELSE /\ connections' = [connections EXCEPT ![t] = IF dry_run THEN MemConn ELSE FileConn(t)]
         /\ initialized' = TRUE
         /\ schema' = TRUE

\* Whether a call of _get_thread_connection by t can fail: only a new
\* sqlite3.connect on the database file can.
ConnectMayFail(t) == connections[t] = NoConn /\ ~dry_run /\ MayFault

(***************************************************************************)
(* main(), lines 345-377.                                                  *)
(***************************************************************************)
\* validate_config without the test for identical paths.
ValidateConfigRaises_NoSame(c, dest_exists) ==
    \/ ~c.keys
    \/ c.source = "missing"
    \/ c.source = "file"
    \/ c.relation = "dest_in_source"
    \/ dest_exists /\ c.relation = "source_in_dest"

\* validate_config (lines 33-89): whether it raises ValueError.
ValidateConfigRaises(c, dest_exists) ==
    \/ ~c.keys
    \/ c.source = "missing"
    \/ c.source = "file"
    \/ c.relation = "same"
    \/ c.relation = "dest_in_source"
    \/ dest_exists /\ c.relation = "source_in_dest"

\* Lines 327-333 of main: load and validate the configuration; any exception
\* prints the error and returns.
ValidateConfig ==
    /\ pcMain = "validate"
    /\ pcMain' = IF ValidateConfigRaises(config, destExists) THEN "aborted" ELSE "create_dest"
    /\ UNCHANGED <<params, lockv, stats_call, pending, scanv, poolv, orchv, connv, store, report, fsv,
                   faults, cancelled, fatal, vacuumed>>

\* create_destination_directory
CreateDestinationDirectory ==
    /\ pcMain = "create_dest"
    /\ \/ /\ destExists \/ dry_run
          /\ pcMain' = "init"
          /\ UNCHANGED destExists
       \/ /\ ~destExists /\ ~dry_run
          /\ \E response \in {"s", "n"} :
                IF response = "s"
                THEN destExists' = TRUE /\ pcMain' = "init"
                ELSE destExists' = destExists /\ pcMain' = "aborted"
    /\ UNCHANGED <<params, lockv, stats_call, pending, scanv, poolv, orchv, connv, store, report, dirs, destFiles,
                   faults, cancelled, fatal, vacuumed>>

\* initialize_database and initialize_file_processor: DatabaseManager.__init__
\* opens the memory database and its schema in a dry run.
Initialize ==
    /\ pcMain = "init"
    /\ pcMain' = "try"
    /\ initialized' = dry_run
    /\ schema' = (schema \/ dry_run)
    /\ UNCHANGED <<params, lockv, stats_call, pending, scanv, poolv, orchv, connections, closed, store, report, fsv,
                   faults, cancelled, fatal, vacuumed>>

\* Line 362: FileProcessor has no method pre_scan_destination; the
\* AttributeError reaches main's handler and scan_directory is not called.
PreScanDestination ==
    /\ pcMain = "try"
    /\ mode = "merge" /\ ~dry_run
    /\ fatal' = TRUE
    /\ pcMain' = "report"
    /\ UNCHANGED <<params, lockv, stats_call, pending, scanv, poolv, orchv, connv, store, report, fsv,
                   faults, cancelled, vacuumed>>

\* scan_directory up to the loop of _collect_files: the main thread's connection.
ScanDirectory ==
    /\ pcMain = "try"
    /\ ~(mode = "merge" /\ ~dry_run)
    /\ CanAcquire("_connection_lock")
    /\ \E ok \in {TRUE} \cup (IF ConnectMayFail(MainThread) THEN {FALSE} ELSE {}) :
          /\ GetThreadConnection(MainThread, ok)
          /\ faults' = IF ok THEN faults ELSE faults \cup {Fault(0, "connect")}
          /\ fatal' = ~ok
          /\ pcMain' = IF ok THEN "collect" ELSE "report"
    /\ UNCHANGED <<params, lockv, stats_call, pending, scanv, poolv, orchv, closed, store, report, fsv,
                   cancelled, vacuumed>>

\* One iteration of the loop of _collect_files (lines 185-199).
CollectItem ==
    /\ pcMain = "collect"
    /\ scanned < Len(all_items)
    /\ LET i == all_items[scanned + 1] IN
          IF ShouldSkipPath(i) \/ ItemOf(i).isdir
          THEN /\ scanned' = scanned + 1
               /\ UNCHANGED <<files_to_process, unsupported_files, store, pending, faults, fatal, pcMain>>
          ELSE IF IsSupportedFile(i)
          THEN /\ scanned' = scanned + 1
               /\ files_to_process' = Append(files_to_process, i)
               /\ UNCHANGED <<unsupported_files, store, pending, faults, fatal, pcMain>>
          ELSE \E outcome \in InsertOutcomes :
               LET r == InsertResult(store, pending[ConnKey(MainThread)],
                                     UnprocessedRow(i, "unsupported", "ext", MainThread), outcome) IN
               /\ CanAcquire("_db_lock")
               /\ scanned' = scanned + 1
               /\ unsupported_files' = unsupported_files + 1
               /\ UNCHANGED files_to_process
               /\ store' = r.rows
               /\ pending' = [pending EXCEPT ![ConnKey(MainThread)] = r.pending]
               /\ IF ~r.raised
                  THEN UNCHANGED <<faults, fatal, pcMain>>
                  ELSE /\ faults' = faults \cup {Fault(i, "insert")}
                       /\ fatal' = TRUE
                       /\ pcMain' = "report"
    /\ UNCHANGED <<params, lockv, stats_call, poolv, orchv, connv, report, fsv, cancelled, vacuumed>>

\* The end of _collect_files and lines 143-156 of scan_directory, up to the
\* submission of every file to the executor (lines 237-241).
SubmitAll ==
    /\ pcMain = "collect"
    /\ scanned = Len(all_items)
    /\ IF files_to_process = <<>>
       THEN /\ stats' = [stats EXCEPT !.unsupported_files = unsupported_files]
            /\ pcMain' = "report"
            /\ UNCHANGED <<queue, future>>
       ELSE /\ stats' = [stats EXCEPT !.unsupported_files = unsupported_files,
                                      !.total_files = Len(files_to_process)]
            /\ queue' = files_to_process
            /\ future' = [f \in Universe |->
                             IF f \in Range(files_to_process) THEN "pending" ELSE "none"]
            /\ pcMain' = "processing"
    /\ UNCHANGED <<params, lockv, stats_call, pending, scanv, wpc, wloc, completed, yielded, connv, store, report, fsv,
                   faults, cancelled, fatal, vacuumed>>

(***************************************************************************)
(* The worker threads: _process_single_file and _organize_file.            *)
(***************************************************************************)
PoolRunning == pcMain \in {"processing", "draining"}

\* The future of the worker's file ends (a result, or "raised") and the
\* thread returns to the pool.
Finish(w, outcome) ==
    /\ future' = [future EXCEPT ![wloc[w].file] = outcome]
    /\ wpc' = [wpc EXCEPT ![w] = "idle"]
    /\ wloc' = [wloc EXCEPT ![w] = IdleLoc]

\* The steps of the pipeline in the order the statements of
\* _process_single_file (lines 314-325) execute them: compute_hash, then
\* extract_date.
StepsOfProcess == <<"fingerprint", "date">>

\* The steps of _organize_file with the duplicate lookup ahead of the
\* destination directory.
StepsOfOrganize_CheckFirst(dup) ==
    <<"duplicate_check", "placement">> \o (IF dup THEN <<"duplicate_placement">> ELSE <<>>)

\* The steps of _organize_file up to the copy (lines 369-390): the
\* destination directory from the date, the duplicate lookup, and for a
\* duplicate the duplicates folder.
StepsOfOrganize(dup) ==
    <<"placement", "duplicate_check">> \o (IF dup THEN <<"duplicate_placement">> ELSE <<>>)

\* The positions of a worker at which it enters `with self._db_lock`
\* (lines 399, 415, 339) and `with self._connection_lock` (line 116, reached
\* from line 311 and from line 340), and the position inside the block.
DbLockSites == {"insert", "except417", "except342"}

ConnLockSites == {"connect", "except342_locked"}

Inside(pc) ==
    CASE pc = "insert"           -> "insert_locked"
      [] pc = "except417"        -> "except417_locked"
      [] pc = "except342"        -> "except342_locked"
      [] pc = "connect"          -> "connect_locked"
      [] pc = "except342_locked" -> "except342_connect"

\* A pool thread takes the next work item and enters _process_single_file.
StartFile(w) ==
    /\ PoolRunning
    /\ w \in Workers
    /\ wpc[w] = "idle"
    /\ queue # <<>>
    /\ LET f == Head(queue) IN
       /\ queue' = Tail(queue)
       /\ future' = [future EXCEPT ![f] = "running"]
       /\ wloc' = [wloc EXCEPT ![w] = [IdleLoc EXCEPT !.file = f]]
       /\ wpc' = [wpc EXCEPT ![w] = "connect"]
    /\ UNCHANGED <<params, lockv, stats_call, pending, pcMain, scanv, orchv, connv, store, report,
                   fsv, faults, cancelled, fatal, vacuumed>>

\* The worker enters `with self._db_lock`.
AcquireDbLock(w) ==
    /\ PoolRunning
    /\ wpc[w] \in DbLockSites
    /\ CanAcquire("_db_lock")
    /\ locks' = Acquire("_db_lock", w)
    /\ wpc' = [wpc EXCEPT ![w] = Inside(wpc[w])]
    /\ UNCHANGED <<params, create_pc, stats_call, pending, pcMain, scanv, queue, future, wloc,
                   orchv, connv, store, report, fsv, faults, cancelled, fatal, vacuumed>>

\* The worker enters `with self._connection_lock` of _get_thread_connection.
AcquireConnectionLock(w) ==
    /\ PoolRunning
    /\ wpc[w] \in ConnLockSites
    /\ CanAcquire("_connection_lock")
    /\ locks' = Acquire("_connection_lock", w)
    /\ wpc' = [wpc EXCEPT ![w] = Inside(wpc[w])]
    /\ UNCHANGED <<params, create_pc, stats_call, pending, pcMain, scanv, queue, future, wloc,
                   orchv, connv, store, report, fsv, faults, cancelled, fatal, vacuumed>>

\* Lines 310-325, from inside _get_thread_connection on: the connection
\* (the lock is released when the block ends or create_db raises), the media
\* type, self.config (an AttributeError when the instance has no such
\* attribute), the hash (None when the read fails) and the date.
ProcessFile(w) ==
    /\ PoolRunning
    /\ wpc[w] = "connect_locked"
    /\ LET f == wloc[w].file IN
       \E conn_ok \in {TRUE} \cup (IF ConnectMayFail(w) THEN {FALSE} ELSE {}) :
          \E read_ok \in {TRUE} \cup (IF conn_ok /\ has_config /\ MayFault
                                      THEN {FALSE} ELSE {}) :
             /\ GetThreadConnection(w, conn_ok)
             /\ locks' = Release(locks, "_connection_lock")
             /\ faults' = IF conn_ok /\ read_ok THEN faults
                          ELSE faults \cup {Fault(f, IF conn_ok THEN "read" ELSE "connect")}
             /\ wloc' = [wloc EXCEPT ![w] =
                            [IdleLoc EXCEPT !.file = f,
                                            !.media_type = MediaType(f),
                                            !.hash = IF read_ok THEN ItemOf(f).content ELSE 0,
                                            !.year = YearOf(f),
                                            !.month = MonthOf(f),
                                            !.steps = IF conn_ok /\ has_config
                                                      THEN StepsOfProcess ELSE <<>>]]
             /\ wpc' = [wpc EXCEPT ![w] = IF conn_ok /\ has_config
                                          THEN "organize" ELSE "except342"]
    /\ UNCHANGED <<params, create_pc, stats_call, pending, pcMain, scanv, queue, future, orchv,
                   closed, store, report, fsv, cancelled, fatal, vacuumed>>

\* Lines 369-387 of _organize_file: the destination directory, the
\* duplicate lookup and, in a dry run, the path the file would get.
CheckDuplicate(w) ==
    /\ PoolRunning
    /\ wpc[w] = "organize"
    /\ LET l == wloc[w]
           dup == IsDuplicate(store, l.hash)
           dest_dir == DestDir(l.media_type, l.year, l.month) IN
       /\ wloc' = [wloc EXCEPT ![w].is_duplicate = dup,
                               ![w].dest_dir = IF dup THEN DuplicateDir(l.media_type) ELSE dest_dir,
                               ![w].final_name = NameOf(l.file),
                               ![w].steps = @ \o StepsOfOrganize(dup)]
       /\ wpc' = [wpc EXCEPT ![w] = IF dry_run THEN "insert" ELSE "copy"]
    /\ UNCHANGED <<params, lockv, stats_call, pending, pcMain, scanv, queue, future, orchv, connv, store, report, fsv,
                   faults, cancelled, fatal, vacuumed>>

Exists(dir, name) == \E g \in destFiles : g.dir = dir /\ g.name = name

\* FileUtils.safe_copy, its loop: the first name that does not exist.
RECURSIVE FreeName(_, _, _)
FreeName(dir, name, counter) ==
    IF ~Exists(dir, name) THEN name
    ELSE FreeName(dir, [name EXCEPT !.ctr = Append(name.ctr, counter)], counter + 1)

\* Lines 391/395 and safe_copy up to the copy: mkdir(parents=True,
\* exist_ok=True), then the search for a free name.
SafeCopyProbe(w) ==
    /\ PoolRunning
    /\ wpc[w] = "copy"
    /\ \E ok \in Outcomes :
          IF ok
          THEN /\ dirs' = dirs \cup Ancestors(wloc[w].dest_dir)
               /\ destExists' = TRUE
               /\ wloc' = [wloc EXCEPT ![w].final_name =
                              FreeName(wloc[w].dest_dir, NameOf(wloc[w].file), 1)]
               /\ wpc' = [wpc EXCEPT ![w] = "write"]
               /\ UNCHANGED faults
          ELSE /\ faults' = faults \cup {Fault(wloc[w].file, "mkdir")}
               /\ wpc' = [wpc EXCEPT ![w] = "except417"]
               /\ UNCHANGED <<dirs, destExists, wloc>>
    /\ UNCHANGED <<params, lockv, stats_call, pending, pcMain, scanv, queue, future, orchv, connv, store, report,
                   destFiles, cancelled, fatal, vacuumed>>

\* shutil.copy2(src_path, dest_file): writes the file, replacing what is there.
SafeCopyWrite(w) ==
    /\ PoolRunning
    /\ wpc[w] = "write"
    /\ \E ok \in Outcomes :
          IF ok
          THEN /\ destFiles' =
                     {g \in destFiles : ~(g.dir = wloc[w].dest_dir /\ g.name = wloc[w].final_name)}
                     \cup {[dir |-> wloc[w].dest_dir, name |-> wloc[w].final_name,
                            content |-> ItemOf(wloc[w].file).content, src |-> wloc[w].file]}
               /\ wpc' = [wpc EXCEPT ![w] = "insert"]
               /\ wloc' = [wloc EXCEPT ![w].steps = Append(@, "copy")]
               /\ UNCHANGED faults
          ELSE /\ faults' = faults \cup {Fault(wloc[w].file, "copy")}
               /\ wpc' = [wpc EXCEPT ![w] = "except417"]
               /\ UNCHANGED <<destFiles, wloc>>
    /\ UNCHANGED <<params, lockv, stats_call, pending, pcMain, scanv, queue, future, orchv, connv, store, report,
                   destExists, dirs, cancelled, fatal, vacuumed>>

\* A status that takes no notice of the dry run.
StatusOf_NoDry(dry, dup) == IF dup THEN "duplicate" ELSE "copied"

\* A dry run that reports no duplicates.
StatusOf_DryNoDuplicates(dry, dup) ==
    IF dry THEN "simulated" ELSE IF dup THEN "duplicate" ELSE "copied"

\* The status of lines 376-397.
StatusOf(dry, dup) ==
    IF dup THEN "duplicate" ELSE IF dry THEN "simulated" ELSE "copied"

\* Lines 399-412: insert_file under _db_lock, then return status.
InsertFile(w) ==
    /\ PoolRunning
    /\ wpc[w] = "insert_locked"
    /\ locks' = Release(locks, "_db_lock")
    /\ LET l == wloc[w]
           status == StatusOf(dry_run, l.is_duplicate) IN
       \E outcome \in InsertOutcomes :
          LET r == InsertResult(store, pending[ConnKey(w)],
                                FileRow(l.file, l.hash, l.year, l.month, l.media_type,
                                        status, l.dest_dir, l.final_name, w), outcome) IN
          /\ store' = r.rows
          /\ pending' = [pending EXCEPT ![ConnKey(w)] = r.pending]
          /\ IF ~r.raised
             THEN /\ Finish(w, status)
                  /\ UNCHANGED faults
             ELSE /\ faults' = faults \cup {Fault(wloc[w].file, "insert")}
                  /\ wpc' = [wpc EXCEPT ![w] = "except417"]
                  /\ UNCHANGED <<future, wloc>>
    /\ UNCHANGED <<params, create_pc, stats_call, pcMain, scanv, queue, orchv, connv, report, fsv,
                   cancelled, fatal, vacuumed>>

\* Lines 414-418: the handler of _organize_file records the error and
\* returns "error"; when its own insert fails the exception leaves
\* _organize_file.
OrganizeExcept(w) ==
    /\ PoolRunning
    /\ wpc[w] = "except417_locked"
    /\ locks' = Release(locks, "_db_lock")
    /\ \E outcome \in InsertOutcomes :
          LET r == InsertResult(store, pending[ConnKey(w)],
                                UnprocessedRow(wloc[w].file, "error", "organize", w), outcome) IN
          /\ store' = r.rows
          /\ pending' = [pending EXCEPT ![ConnKey(w)] = r.pending]
          /\ IF ~r.raised
             THEN /\ Finish(w, "error")
                  /\ UNCHANGED faults
             ELSE /\ faults' = faults \cup {Fault(wloc[w].file, "insert417")}
                  /\ wpc' = [wpc EXCEPT ![w] = "except342"]
                  /\ UNCHANGED <<future, wloc>>
    /\ UNCHANGED <<params, create_pc, stats_call, pcMain, scanv, queue, orchv, connv, report, fsv,
                   cancelled, fatal, vacuumed>>

\* Lines 338-343: the handler of _process_single_file takes the connection
\* again, records the error and re-raises; when the connection or the insert
\* fails, that exception is raised instead and no row is written.
ProcessExcept(w) ==
    /\ PoolRunning
    /\ wpc[w] = "except342_connect"
    /\ locks' = Release(Release(locks, "_connection_lock"), "_db_lock")
    /\ \E conn_ok \in {TRUE} \cup (IF ConnectMayFail(w) THEN {FALSE} ELSE {}) :
       \E outcome \in (IF conn_ok THEN InsertOutcomes ELSE {"none"}) :
          LET r == IF conn_ok
                   THEN InsertResult(store, pending[ConnKey(w)],
                                     UnprocessedRow(wloc[w].file, "error", "process", w), outcome)
                   ELSE [rows |-> store, pending |-> pending[ConnKey(w)], raised |-> TRUE] IN
          /\ GetThreadConnection(w, conn_ok)
          /\ faults' = IF ~r.raised THEN faults
                       ELSE faults \cup {Fault(wloc[w].file, IF conn_ok THEN "insert342" ELSE "connect342")}
          /\ store' = r.rows
          /\ pending' = [pending EXCEPT ![ConnKey(w)] = r.pending]
          /\ Finish(w, "raised")
    /\ UNCHANGED <<params, create_pc, stats_call, pcMain, scanv, queue, orchv, closed, report, fsv,
                   cancelled, fatal, vacuumed>>

(***************************************************************************)
(* The orchestrator: the loop over as_completed (lines 243-293).           *)
(***************************************************************************)
\* An as_completed that also yields futures still running.
Done_Running(f) == future[f] # "none"

Done(f) == future[f] \in {"copied", "simulated", "duplicate", "error", "raised"}

\* A tally that counts a failed future twice.
Tally_Twice(st, outcome, media_type) ==
    IF outcome \in {"error", "raised"} THEN [st EXCEPT !.error_files = @ + 2] ELSE st

\* The counters one finished future adds to self.stats.
Tally(st, outcome, media_type) ==
    CASE outcome = "duplicate" ->
            [st EXCEPT !.duplicate_files = @ + 1]
      [] outcome \in {"copied", "simulated"} ->
            [st EXCEPT !.processed_files = @ + 1,
                       !.photos_organized = IF media_type = "PHOTO" THEN @ + 1 ELSE @,
                       !.videos_organized = IF media_type = "PHOTO" THEN @ ELSE @ + 1]
      [] outcome \in {"error", "raised"} ->
            [st EXCEPT !.error_files = @ + 1]
      [] OTHER -> st

\* as_completed yields a finished future; the main thread enters
\* `with self._progress_lock` (line 250, or line 278 when result() raised)
\* and updates its counters there.
Collect ==
    /\ pcMain = "processing"
    /\ CanAcquire("_progress_lock")
    /\ \E f \in Range(files_to_process) \ yielded :
          /\ Done(f)
          /\ yielded' = yielded \cup {f}
          /\ locks' = Acquire("_progress_lock", MainThread)
          /\ completed' = completed + 1
          /\ stats' = Tally(stats, future[f], MediaType(f))
    /\ UNCHANGED <<params, create_pc, stats_call, pending, pcMain, scanv, poolv, connv, store, report, fsv,
                   faults, cancelled, fatal, vacuumed>>

\* The with-block of _progress_lock ends and the progress line is written
\* (lines 266-274, 284-292).
ProgressReport ==
    /\ pcMain = "processing"
    /\ locks["_progress_lock"] = MainThread
    /\ locks' = Release(locks, "_progress_lock")
    /\ UNCHANGED <<params, create_pc, stats_call, pending, pcMain, scanv, poolv, orchv, connv, store,
                   report, fsv, faults, cancelled, fatal, vacuumed>>

\* The loop ends when every future has been yielded; the executor's
\* shutdown finds every thread idle.
PoolExit ==
    /\ pcMain = "processing"
    /\ locks["_progress_lock"] = Free
    /\ yielded = Range(files_to_process)
    /\ pcMain' = "cleanup"
    /\ UNCHANGED <<params, lockv, stats_call, pending, scanv, poolv, orchv, connv, store, report, fsv,
                   faults, cancelled, fatal, vacuumed>>

\* _cleanup_connections (line 158): close every handle of the table.
CleanupConnections ==
    /\ pcMain = "cleanup"
    /\ CanAcquire("_connection_lock")
    /\ closed' = closed \cup {connections[t] : t \in {u \in Threads : connections[u] # NoConn}}
    /\ connections' = [t \in Threads |-> NoConn]
    /\ pcMain' = "report"
    /\ UNCHANGED <<params, lockv, stats_call, pending, scanv, poolv, orchv, initialized, schema, store, report, fsv,
                   faults, cancelled, fatal, vacuumed>>

\* An interrupt that no handler of main catches: the process ends at once.
KeyboardInterrupt_Uncaught ==
    /\ pcMain \in {"try", "collect", "cleanup"}
    /\ ~cancelled
    /\ cancelled' = TRUE
    /\ pcMain' = "done"
    /\ UNCHANGED <<params, lockv, stats_call, pending, scanv, poolv, orchv, connv, store, report, fsv,
                   faults, fatal, vacuumed>>

\* The operator's Ctrl-C reaches the main thread inside main's try block
\* (one interrupt per run).  Inside
\* the with-block the executor's __exit__ runs shutdown(wait=True): the
\* work items already submitted still run, their results are not collected.
KeyboardInterrupt ==
    /\ pcMain \in {"try", "collect", "processing", "cleanup"}
    /\ ~cancelled
    /\ cancelled' = TRUE
    /\ pcMain' = IF pcMain = "processing" THEN "draining" ELSE "report"
    /\ locks' = Release(locks, "_progress_lock")
    /\ UNCHANGED <<params, create_pc, stats_call, pending, scanv, poolv, orchv, connv, store, report, fsv,
                   faults, fatal, vacuumed>>

Drained ==
    /\ pcMain = "draining"
    /\ queue = <<>>
    /\ \A w \in Workers : wpc[w] = "idle"
    /\ pcMain' = "report"
    /\ UNCHANGED <<params, lockv, stats_call, pending, scanv, poolv, orchv, connv, store, report, fsv,
                   faults, cancelled, fatal, vacuumed>>

\* A finally clause that runs cleanup_database in a dry run as well.
GenerateFinalReport_AlwaysVacuum ==
    /\ pcMain = "report"
    /\ report' = GetStatistics
    /\ pcMain' = "vacuum"
    /\ UNCHANGED <<params, lockv, stats_call, pending, scanv, poolv, orchv, connv, store, fsv,
                   faults, cancelled, fatal, vacuumed>>

\* main's finally: generate_final_report, then cleanup_database.
GenerateFinalReport ==
    /\ pcMain = "report"
    /\ report' = GetStatistics
    /\ pcMain' = IF ~dry_run /\ vacuum_on_completion THEN "vacuum" ELSE "done"
    /\ UNCHANGED <<params, lockv, stats_call, pending, scanv, poolv, orchv, connv, store, fsv,
                   faults, cancelled, fatal, vacuumed>>

CleanupDatabase ==
    /\ pcMain = "vacuum"
    /\ vacuumed' = vacuumed + 1
    /\ pcMain' = "done"
    /\ UNCHANGED <<params, lockv, stats_call, pending, scanv, poolv, orchv, connv, store, report, fsv,
                   faults, cancelled, fatal>>

Next ==
    \/ ValidateConfig
    \/ CreateDestinationDirectory
    \/ Initialize
    \/ PreScanDestination
    \/ ScanDirectory
    \/ CollectItem
    \/ SubmitAll
    \/ \E w \in 1..MaxWorkers : StartFile(w)
    \/ \E w \in 1..MaxWorkers : AcquireConnectionLock(w)
    \/ \E w \in 1..MaxWorkers : ProcessFile(w)
    \/ \E w \in 1..MaxWorkers : AcquireDbLock(w)
    \/ \E w \in 1..MaxWorkers : CheckDuplicate(w)
    \/ \E w \in 1..MaxWorkers : SafeCopyProbe(w)
    \/ \E w \in 1..MaxWorkers : SafeCopyWrite(w)
    \/ \E w \in 1..MaxWorkers : InsertFile(w)
    \/ \E w \in 1..MaxWorkers : OrganizeExcept(w)
    \/ \E w \in 1..MaxWorkers : ProcessExcept(w)
    \/ Collect
    \/ ProgressReport
    \/ PoolExit
    \/ CleanupConnections
    \/ KeyboardInterrupt
    \/ Drained
    \/ GenerateFinalReport
    \/ CleanupDatabase

Spec == Init /\ [][Next]_vars

(***************************************************************************)
(* A further run of main() with the same command line over the same        *)
(* source: a new process, the database file and the destination tree as    *)
(* the run before left them; the memory database of a dry run is gone.     *)
(***************************************************************************)
RunAgain ==
    /\ pcMain \in {"done", "aborted"}
    /\ run < MaxRuns
    /\ run' = run + 1
    /\ earlier' = Append(earlier, [completed |-> pcMain = "done" /\ ~cancelled /\ ~fatal])
    /\ pcMain' = "validate"
    /\ scanned' = 0
    /\ files_to_process' = <<>>
    /\ unsupported_files' = 0
    /\ stats' = ZeroStats
    /\ completed' = 0
    /\ queue' = <<>>
    /\ future' = [f \in Universe |-> "none"]
    /\ yielded' = {}
    /\ connections' = [t \in Threads |-> NoConn]
    /\ closed' = {}
    /\ initialized' = FALSE
    /\ schema' = (schema /\ ~dry_run)
    /\ store' = IF dry_run THEN <<>> ELSE store
    /\ report' = NoReport
    /\ cancelled' = FALSE
    /\ fatal' = FALSE
    /\ vacuumed' = 0
    /\ pending' = [t \in Threads |-> <<>>]
    /\ UNCHANGED <<lockv, mode, dry_run, has_config, max_workers, all_items, exclude_patterns, stats_call, config,
                   wpc, wloc, fsv, faults>>

\* The runs of a session are taken with one worker: what a later run finds
\* depends on the rows and files the earlier run left, not on its schedule.
InitRerun == Init /\ max_workers = 1

SpecRerun == InitRerun /\ [][Next \/ RunAgain]_vars

(***************************************************************************)
(* The size of the pool: determine_worker_count, FileProcessor.__init__    *)
(* and the ThreadPoolExecutor of _process_files_parallel, over settings of  *)
(* parallel_processing and machines that the runs above do not vary.       *)
(***************************************************************************)
Min(a, b) == IF a <= b THEN a ELSE b

\* int(cpu_count * cpu_multiplier) for a multiplier given in halves.
IntOfProduct(cpu_count, multiplier_x2) == (cpu_count * multiplier_x2) \div 2

\* os.cpu_count() or 4
CpuCountOr4(c) == IF c.cpu_count = Unset THEN 4 ELSE c.cpu_count

\* determine_worker_count (PhotoOrg.py 92-108).
DetermineWorkerCount(c) ==
    IF c.parallel.max_workers # Unset
    THEN c.parallel.max_workers
    ELSE LET cpu_multiplier_x2 == IF c.parallel.cpu_multiplier_x2 = Unset
                                  THEN 4 ELSE c.parallel.cpu_multiplier_x2
             max_limit == IF c.parallel.max_workers_limit = Unset
                          THEN 16 ELSE c.parallel.max_workers_limit
         IN Min(IntOfProduct(CpuCountOr4(c), cpu_multiplier_x2), max_limit)

\* _detect_optimal_workers (file_processor.py 95-105).
DetectOptimalWorkers(c) == Min(CpuCountOr4(c) * 2, 16)

\* self.max_workers = max_workers or self._detect_optimal_workers()
ProcessorMaxWorkers(c) ==
    IF DetermineWorkerCount(c) # 0 THEN DetermineWorkerCount(c) ELSE DetectOptimalWorkers(c)

\* The settings and machines tried.
ParallelSettings ==
    [max_workers : {Unset, 0 - 1, 0, 1, 2, 3},
     cpu_multiplier_x2 : {Unset, 0, 1, 3, 4},
     max_workers_limit : {Unset, 0, 1, 4, 16}]

CpuCounts == {Unset, 1, 2, 4, 12}

InitWorkers ==
    /\ mode = "fresh"
    /\ dry_run \in BOOLEAN
    /\ has_config = FALSE
    /\ max_workers = 0
    /\ all_items = <<>>
    /\ exclude_patterns = {}
    /\ run = 1
    /\ earlier = <<>>
    /\ stats_call = NoCall
    /\ pending = [t \in Threads |-> <<>>]
    /\ faults = {}
    /\ store = <<>>
    /\ schema = FALSE
    /\ destExists = TRUE
    /\ config \in {[ValidConfig EXCEPT !.parallel = p, !.cpu_count = n] :
                       p \in ParallelSettings, n \in CpuCounts}
    /\ destFiles = {}
    /\ dirs = {}
    /\ ProcessState

\* initialize_file_processor: determine_worker_count, then
\* FileProcessor.__init__ (line 69).
InitializeFileProcessor ==
    /\ pcMain = "validate"
    /\ max_workers' = ProcessorMaxWorkers(config)
    /\ pcMain' = "init"
    /\ UNCHANGED <<lockv, mode, dry_run, has_config, all_items, exclude_patterns, run, earlier,
                   config, stats_call, pending, scanv, poolv, orchv, connv, store, report,
                   fsv, faults, cancelled, fatal, vacuumed>>

\* ThreadPoolExecutor(max_workers=self.max_workers) (line 237): ValueError
\* when max_workers <= 0, which main's except Exception reports.
CreateExecutor ==
    /\ pcMain = "init"
    /\ pcMain' = IF max_workers <= 0 THEN "report" ELSE "processing"
    /\ fatal' = (max_workers <= 0)
    /\ UNCHANGED <<params, lockv, stats_call, pending, scanv, poolv, orchv, connv, store, report,
                   fsv, faults, cancelled, vacuumed>>

\* The size of the pool for every setting of parallel_processing.
SpecWorkers == InitWorkers /\ [][InitializeFileProcessor \/ CreateExecutor]_vars

(***************************************************************************)
(* get_statistics called by a thread of its own while the run is under     *)
(* way.  The function executes two SELECT statements one after the other,  *)
(* outside any transaction and without a lock: the general counters, then  *)
(* the histogram by year.  An exception in either gives _empty_stats.      *)
(***************************************************************************)
StatisticsFails == (dry_run /\ MemConn \in closed) \/ ~schema

GetStatisticsGeneral ==
    /\ pcMain \in {"collect", "processing", "draining", "cleanup"}
    /\ stats_call.pc = "none"
    /\ stats_call' = IF StatisticsFails
                     THEN [pc |-> "returned", general |-> ZeroStats, yearly |-> {}]
                     ELSE [pc |-> "general", general |-> GeneralStats(store), yearly |-> {}]
    /\ UNCHANGED <<params, lockv, pending, pcMain, scanv, poolv, orchv, connv, store, report, fsv,
                   faults, cancelled, fatal, vacuumed>>

GetStatisticsYearly ==
    /\ stats_call.pc = "general"
    /\ stats_call' = IF StatisticsFails
                     THEN [pc |-> "returned", general |-> ZeroStats, yearly |-> {}]
                     ELSE [stats_call EXCEPT !.pc = "returned", !.yearly = YearlyStats(store)]
    /\ UNCHANGED <<params, lockv, pending, pcMain, scanv, poolv, orchv, connv, store, report, fsv,
                   faults, cancelled, fatal, vacuumed>>

\* A run of main() and one call of get_statistics during it.
SpecStats == Init /\ [][Next \/ GetStatisticsGeneral \/ GetStatisticsYearly]_vars

(***************************************************************************)
(* main() invoked with --reset after a run: reset_environment asks the    *)
(* operator and, on "s", deletes the database file and the folders PHOTO,  *)
(* VIDEO, PHOTO_DUPLICATES, VIDEO_DUPLICATES and ToReview of the           *)
(* destination; main returns without processing anything.                  *)
(***************************************************************************)
ResetEnvironment ==
    /\ pcMain \in {"done", "aborted"}
    /\ run < MaxRuns
    /\ run' = run + 1
    /\ earlier' = Append(earlier, [completed |-> pcMain = "done" /\ ~cancelled /\ ~fatal])
    /\ pcMain' = "done"
    /\ \E response \in {"s", "n"} :
          IF response = "s"
          THEN /\ store' = <<>>
               /\ schema' = FALSE
               /\ destFiles' = {}
               /\ dirs' = {}
          ELSE UNCHANGED <<store, schema, destFiles, dirs>>
    /\ scanned' = 0
    /\ files_to_process' = <<>>
    /\ unsupported_files' = 0
    /\ stats' = ZeroStats
    /\ completed' = 0
    /\ queue' = <<>>
    /\ future' = [f \in Universe |-> "none"]
    /\ yielded' = {}
    /\ connections' = [t \in Threads |-> NoConn]
    /\ closed' = {}
    /\ initialized' = FALSE
    /\ report' = NoReport
    /\ cancelled' = FALSE
    /\ fatal' = FALSE
    /\ vacuumed' = 0
    /\ pending' = [t \in Threads |-> <<>>]
    /\ UNCHANGED <<lockv, mode, dry_run, has_config, max_workers, all_items, exclude_patterns, stats_call, config,
                   wpc, wloc, destExists, faults>>

\* A run of main(), with any schedule of its workers, and the reset that
\* may follow it.
SpecReset == Init /\ [][Next \/ ResetEnvironment]_vars

(***************************************************************************)
(* create_db called by several threads at once (database_manager.py 60-83) *)
(* on the DatabaseManager of a durable store, without the                  *)
(* _connection_lock of FileProcessor around the call.                      *)
(***************************************************************************)
InitCreateDb ==
    /\ mode = "fresh"
    /\ dry_run = FALSE
    /\ has_config = FALSE
    /\ max_workers = MaxWorkers
    /\ all_items = <<>>
    /\ exclude_patterns = {}
    /\ run = 1
    /\ earlier = <<>>
    /\ stats_call = NoCall
    /\ pending = [t \in Threads |-> <<>>]
    /\ faults = {}
    /\ store = <<>>
    /\ schema \in BOOLEAN
    /\ destExists = TRUE
    /\ config = ValidConfig
    /\ destFiles = {}
    /\ dirs = {}
    /\ ProcessState

\* Lines 65-76: sqlite3.connect on the database file and the PRAGMAs.
CreateDbConnect(t) ==
    /\ create_pc[t] = "idle"
    /\ create_pc' = [create_pc EXCEPT ![t] = "connected"]
    /\ UNCHANGED <<params, locks, stats_call, pending, pcMain, scanv, poolv, orchv, connv, store,
                   report, fsv, faults, cancelled, fatal, vacuumed>>

\* Line 78: with self._global_lock.
CreateDbLock(t) ==
    /\ create_pc[t] = "connected"
    /\ CanAcquire("_global_lock")
    /\ locks' = Acquire("_global_lock", t)
    /\ create_pc' = [create_pc EXCEPT ![t] = "locked"]
    /\ UNCHANGED <<params, stats_call, pending, pcMain, scanv, poolv, orchv, connv, store,
                   report, fsv, faults, cancelled, fatal, vacuumed>>

\* A create_db that tests _initialized inside the lock and creates the
\* schema outside it.
CreateDbCheck_Unlocked(t) ==
    /\ create_pc[t] = "locked"
    /\ locks' = Release(locks, "_global_lock")
    /\ IF initialized
       THEN /\ connections' = [connections EXCEPT ![t] = FileConn(t)]
            /\ create_pc' = [create_pc EXCEPT ![t] = "returned"]
       ELSE /\ create_pc' = [create_pc EXCEPT ![t] = "initializing"]
            /\ UNCHANGED connections
    /\ UNCHANGED <<params, stats_call, pending, pcMain, scanv, poolv, orchv, closed, initialized,
                   schema, store, report, fsv, faults, cancelled, fatal, vacuumed>>

\* Line 79: if not self._initialized; when it is set the block ends and the
\* handle is returned (line 83).
CreateDbCheck(t) ==
    /\ create_pc[t] = "locked"
    /\ IF initialized
       THEN /\ locks' = Release(locks, "_global_lock")
            /\ connections' = [connections EXCEPT ![t] = FileConn(t)]
            /\ create_pc' = [create_pc EXCEPT ![t] = "returned"]
       ELSE /\ create_pc' = [create_pc EXCEPT ![t] = "initializing"]
            /\ UNCHANGED <<locks, connections>>
    /\ UNCHANGED <<params, stats_call, pending, pcMain, scanv, poolv, orchv, closed, initialized,
                   schema, store, report, fsv, faults, cancelled, fatal, vacuumed>>

\* Lines 80-83: _initialize_schema(conn) (CREATE TABLE / INDEX IF NOT EXISTS
\* and commit), then _initialized = True, the end of the block and the return
\* of the handle; when a statement raises, the block ends, the flag is left
\* unset and no handle is returned.
CreateDbInitialize(t) ==
    /\ create_pc[t] = "initializing"
    /\ \E ok \in Outcomes :
          IF ok
          THEN /\ schema' = TRUE
               /\ initialized' = TRUE
               /\ connections' = [connections EXCEPT ![t] = FileConn(t)]
               /\ create_pc' = [create_pc EXCEPT ![t] = "returned"]
               /\ UNCHANGED faults
          ELSE /\ faults' = faults \cup {Fault(t, "schema")}
               /\ create_pc' = [create_pc EXCEPT ![t] = "idle"]
               /\ UNCHANGED <<schema, initialized, connections>>
    /\ locks' = Release(locks, "_global_lock")
    /\ UNCHANGED <<params, stats_call, pending, pcMain, scanv, poolv, orchv, closed,
                   store, report, fsv, cancelled, fatal, vacuumed>>

\* The caller runs a statement on table files through the handle it got:
\* sqlite3.OperationalError (no such table) when the table does not exist.
UseHandle(t) ==
    /\ create_pc[t] = "returned"
    /\ create_pc' = [create_pc EXCEPT ![t] = IF schema THEN "used" ELSE "no_table"]
    /\ UNCHANGED <<params, locks, stats_call, pending, pcMain, scanv, poolv, orchv, connv, store,
                   report, fsv, faults, cancelled, fatal, vacuumed>>

\* The caller closes its handle; it may call create_db again.
CloseHandle(t) ==
    /\ create_pc[t] = "used"
    /\ closed' = closed \cup {connections[t]}
    /\ connections' = [connections EXCEPT ![t] = NoConn]
    /\ create_pc' = [create_pc EXCEPT ![t] = "idle"]
    /\ UNCHANGED <<params, locks, stats_call, pending, pcMain, scanv, poolv, orchv, initialized,
                   schema, store, report, fsv, faults, cancelled, fatal, vacuumed>>

NextCreateDb ==
    \/ \E t \in Threads : CreateDbConnect(t)
    \/ \E t \in Threads : CreateDbLock(t)
    \/ \E t \in Threads : CreateDbCheck(t)
    \/ \E t \in Threads : CreateDbInitialize(t)
    \/ \E t \in Threads : UseHandle(t)
    \/ \E t \in Threads : CloseHandle(t)

SpecCreateDb == InitCreateDb /\ [][NextCreateDb]_vars

(***************************************************************************)
(* Properties.                                                             *)
(***************************************************************************)
RowIds == 1..Len(store)

\* The rows run r wrote for file f.
RowsOf(f, r) == {k \in RowIds : store[k].original_path = f /\ store[k].created_at = r}

\* The files of the source the scanner takes for processing, and those it
\* records as unsupported.
SupportedFiles ==
    {i \in Range(all_items) : ~ShouldSkipPath(i) /\ ~ItemOf(i).isdir /\ IsSupportedFile(i)}

UnsupportedFiles ==
    {i \in Range(all_items) : ~ShouldSkipPath(i) /\ ~ItemOf(i).isdir /\ ~IsSupportedFile(i)}

\* scan_directory returned without an exception and main's finally has run.
RunCompleted == pcMain = "done" /\ ~cancelled /\ ~fatal

FaultsOf(f) == {x \in faults : x.file = f}

StoreSites == {"connect", "insert", "insert417", "insert342", "connect342"}

Failed(f) == future[f] \in {"error", "raised"}

Primary(k) == store[k].status # "duplicate"

C2_IdempotentRerun ==
    (/\ mode = "fresh" /\ ~dry_run
     /\ run = 2 /\ earlier[1].completed /\ RunCompleted
     /\ faults = {})
    => /\ \A f \in SupportedFiles : \E k \in RowsOf(f, 2) : store[k].status = "duplicate"
       /\ \A k \in RowIds : store[k].created_at = 2 => store[k].status # "copied"

\* C3: a non-dry merge run that ends without cancellation and without I/O
\* faults has recorded every file the destination held with status existing,
\* has scanned the source, and has recorded every source file with the
\* content of such a file as duplicate, without copying it.
C3_MergePreIndex ==
    (mode = "merge" /\ ~dry_run /\ pcMain = "done" /\ ~cancelled /\ faults = {})
    => /\ \A g \in destFiles : g.src = 0 =>
             \E k \in RowIds : store[k].status = "existing" /\ store[k].hash = g.content
       /\ scanned = Len(all_items)
       /\ \A g \in destFiles : \A f \in SupportedFiles :
             (g.src = 0 /\ ItemOf(f).content = g.content) =>
                 /\ \E k \in RowsOf(f, run) : store[k].status = "duplicate"
                 /\ \A c \in destFiles : c.src = f => c.dir = DuplicateDir(MediaType(f))

Conserved(s) ==
    s.total_files = s.processed_files + s.duplicate_files + s.unsupported_files + s.error_files

\* C4: at the end of every completed run total_files equals processed +
\* duplicate + unsupported + error files, in self.stats and in the
\* statistics read from the store.
C4_CountConservation ==
    RunCompleted => Conserved(stats) /\ Conserved(report.general)

\* The part of C4 about the aggregate read from the store.
C4_StoreAggregateConserved ==
    report.made => Conserved(report.general)

\* C5: the fresh run over a.jpg, b.jpg, c.txt, one file after the other, from
\* an empty database into an empty destination and without I/O faults, ends
\* with a.jpg copied to PHOTO/2020/05, b.jpg duplicate in PHOTO_DUPLICATES,
\* c.txt unsupported and the statistics 3, 1, 1, 1, 0.
C5_Scenario ==
    (/\ all_items = <<1, 2, 3>> /\ mode = "fresh" /\ ~dry_run /\ max_workers = 1
     /\ \A g \in destFiles : g.src # 0
     /\ faults = {} /\ RunCompleted)
    => /\ \E k \in RowsOf(1, run) :
             /\ store[k].status = "copied"
             /\ store[k].destination_path = <<"PHOTO", "2020", "05">>
             /\ store[k].final_name = NameOf(1)
       /\ \E k \in RowsOf(2, run) :
             /\ store[k].status = "duplicate"
             /\ store[k].destination_path = <<"PHOTO_DUPLICATES">>
             /\ store[k].final_name = NameOf(2)
       /\ \E k \in RowsOf(3, run) : store[k].status = "unsupported"
       /\ report.general.total_files = 3
       /\ report.general.processed_files = 1
       /\ report.general.duplicate_files = 1
       /\ report.general.unsupported_files = 1
       /\ report.general.error_files = 0

\* In a dry run no handle on the database file exists: every row goes to
\* the memory database, and VACUUM never runs on the file.
DryRunStoreInMemory ==
    /\ \A t \in Threads : connections[t] \in {NoConn, MemConn}
    /\ closed \subseteq {MemConn}
    /\ vacuumed = 0

\* C6: in a dry run no step changes the destination tree (its root, its
\* directories, its files), every row written has status simulated,
\* duplicate, unsupported or error (never copied), and the rows go only to
\* the memory database.
C6_DryRunPurity ==
    /\ [](dry_run => /\ \A k \in RowIds :
                          store[k].status \in {"simulated", "duplicate", "unsupported", "error"}
                     /\ DryRunStoreInMemory)
    /\ [][dry_run => UNCHANGED fsv]_vars

\* C6 as stated: in a dry run every row whose status is not error has
\* status simulated or duplicate.
C6_NonErrorSimulatedOrDuplicate ==
    dry_run => \A k \in RowIds :
                  store[k].status # "error" => store[k].status \in {"simulated", "duplicate"}

\* A dry run over files with equal content has ended: one row simulated,
\* one duplicate.
C6_DryRunEnded ==
    /\ dry_run /\ RunCompleted
    /\ \E j, k \in RowIds : store[j].status = "simulated" /\ store[k].status = "duplicate"

Subtree(kind, year, month, duplicate) ==
    IF duplicate
    THEN (IF kind = "PHOTO" THEN <<"PHOTO_DUPLICATES">> ELSE <<"VIDEO_DUPLICATES">>)
    ELSE IF year = "Unknown" \/ month = "Unknown"
         THEN <<"ToReview", kind>>
         ELSE <<kind, year, month>>

\* C8: the destination of every copied, simulated or duplicate row is the
\* subtree the placement function gives for the row's kind, year, month and
\* duplicate flag, and every file copied from the source lies in a subtree
\* the function gives for it.
C8_Placement ==
    /\ \A k \in RowIds :
          store[k].status \in {"copied", "simulated", "duplicate"} =>
              store[k].destination_path =
                  Subtree(store[k].media_type, store[k].year, store[k].month,
                          store[k].status = "duplicate")
    /\ \A g \in destFiles : g.src # 0 =>
          \E d \in BOOLEAN : g.dir = Subtree(MediaType(g.src), YearOf(g.src), MonthOf(g.src), d)

\* A dated file recorded as duplicate beside an undated one recorded as
\* primary under ToReview.
C8_DatedDuplicateAndToReview ==
    \E j, k \in RowIds :
        /\ store[j].status = "duplicate" /\ store[j].year = "2020"
        /\ store[j].destination_path = <<"PHOTO_DUPLICATES">>
        /\ store[k].status \in {"copied", "simulated"} /\ store[k].year = "Unknown"
        /\ store[k].destination_path = <<"ToReview", "PHOTO">>

\* C9: a supported file without a resolvable date, processed without any I/O
\* fault, never ends as an error: it is recorded as duplicate, or placed
\* under ToReview/<kind> with status copied (simulated in a dry run).
C9_UndatedFile ==
    \A f \in Range(files_to_process) :
        (ItemOf(f).date = None /\ Done(f) /\ FaultsOf(f) = {}) =>
            /\ ~Failed(f)
            /\ future[f] # "duplicate" =>
                  \E k \in RowsOf(f, run) :
                      /\ store[k].status = (IF dry_run THEN "simulated" ELSE "copied")
                      /\ store[k].destination_path = <<"ToReview", MediaType(f)>>

\* C10: a file whose processing failed, the store accepting the appends for
\* it, has exactly one row, an error row; the error counter holds one count
\* per failed file the orchestrator has collected; no failure of a file is
\* fatal to the run; and the pool is left, without an interrupt, only when
\* every dispatched file has finished and has been collected.
C10_FailureIsolated ==
    /\ \A f \in Range(files_to_process) :
          (Failed(f) /\ \A x \in FaultsOf(f) : x.site \notin StoreSites) =>
              /\ Cardinality(RowsOf(f, run)) = 1
              /\ \A k \in RowsOf(f, run) : store[k].status = "error"
    /\ stats.error_files = Cardinality({f \in yielded : Failed(f)})
    /\ fatal => \A f \in Universe : future[f] = "none"
    /\ (pcMain \in {"cleanup", "report", "vacuum", "done"} /\ ~cancelled /\ ~fatal) =>
          /\ \A f \in Range(files_to_process) : Done(f) /\ f \in yielded
          /\ completed = Len(files_to_process)

\* A run has ended in which the copy of one file failed and another file
\* was copied.
C10_OneFailedOneCopied ==
    /\ RunCompleted
    /\ \E f, g \in Range(files_to_process) :
          /\ Failed(f) /\ Fault(f, "copy") \in faults
          /\ future[g] = "copied"

\* C11: once the operator has interrupted the run, no file that is still
\* waiting in the executor's queue is started.
C11_NoStartAfterCancel ==
    [][cancelled => \A f \in Universe : future[f] = "pending" => future'[f] = "pending"]_vars

\* The interrupt arrived while a file was waiting in the queue.
C11_CancelledWithQueue ==
    cancelled /\ pcMain = "draining" /\ queue # <<>>

(***************************************************************************)
(* The run's states of the specification, read off the position of main.   *)
(***************************************************************************)
Phase(pc) ==
    CASE pc \in {"validate", "create_dest", "init"} -> "Idle"
      [] pc = "try" -> (IF mode = "merge" /\ ~dry_run THEN "PreIndexing" ELSE "Scanning")
      [] pc = "collect" -> "Scanning"
      [] pc \in {"processing", "draining", "cleanup"} -> "Processing"
      [] pc \in {"report", "vacuum"} -> "Finalizing"
      [] OTHER -> "Done"

\* The states a run may be in one step after state p.
Successors(p) ==
    CASE p = "Idle" -> {"Idle", "PreIndexing", "Scanning", "Done"}
      [] p = "PreIndexing" -> {"PreIndexing", "Scanning", "Finalizing"}
      [] p = "Scanning" -> {"Scanning", "Processing", "Finalizing"}
      [] p = "Processing" -> {"Processing", "Finalizing"}
      [] p = "Finalizing" -> {"Finalizing", "Done"}
      [] OTHER -> {"Done"}

\* Every thread that can take a step eventually takes one: the interpreter
\* schedules the main thread and the pool threads, and every call returns.
SpecFair == Spec /\ WF_vars(Next)

C13_ReportEqualsRows ==
    report.made =>
        /\ report.general = GeneralStats(store)
        /\ report.yearly = YearlyStats(store)

\* A dry run wrote rows, released its handles and then made its report.
C13_DryReportAfterCleanup ==
    dry_run /\ report.made /\ MemConn \in closed /\ store # <<>>

PositionOf(i) == CHOOSE p \in 1..Len(all_items) : all_items[p] = i

\* C15: every unsupported file the scanner has passed (its insert not
\* failing) has exactly one row, with status unsupported and NULL hash,
\* written by the main thread; when any file has been handed to the pool all
\* these rows are written; and an unsupported file is never handed to the
\* pool.
C15_UnsupportedRecorded ==
    \A i \in UnsupportedFiles :
        /\ (scanned >= PositionOf(i) /\ FaultsOf(i) = {}) =>
              /\ Cardinality(RowsOf(i, run)) = 1
              /\ \A k \in RowsOf(i, run) :
                    /\ store[k].status = "unsupported"
                    /\ store[k].hash = 0
                    /\ store[k].processing_thread = MainThread
        /\ scanned < PositionOf(i) => RowsOf(i, run) = {}
        /\ (\E f \in Universe : future[f] # "none") => scanned >= PositionOf(i)
        /\ future[i] = "none"
        /\ i \notin Range(files_to_process) \cup Range(queue)
        /\ \A w \in 1..MaxWorkers : wloc[w].file # i

\* A worker is processing a file of a source that also holds an
\* unsupported file, whose row is already in the store.
C15_RowBeforeWorkers ==
    /\ \E f \in Universe : future[f] = "running"
    /\ \E i \in UnsupportedFiles : \E k \in RowsOf(i, run) : store[k].status = "unsupported"

\* An item an exclusion rule matches: a segment of its path starts with a
\* dot, or a configured pattern occurs in its path.
Excluded(i) ==
    \/ \E k \in 1..Len(ItemOf(i).parts) : ItemOf(i).parts[k] \in {".hid"}
    \/ "sub" \in exclude_patterns /\ i \in {4, 7}

\* C16: an excluded item and a directory have no row in the store and are
\* never handed to a worker.
C16_ExcludedNeverRecorded ==
    \A i \in Range(all_items) :
        (Excluded(i) \/ ItemOf(i).isdir) =>
            /\ \A k \in RowIds : store[k].original_path # i
            /\ future[i] = "none"
            /\ i \notin Range(files_to_process) \cup Range(queue)
            /\ \A w \in 1..MaxWorkers : wloc[w].file # i

\* A run over a source with a file under an excluded directory has ended
\* with rows for other files.
C16_ExcludedFilePassed ==
    /\ RunCompleted /\ store # <<>>
    /\ exclude_patterns # {} /\ 4 \in Range(all_items)

\* The files of the source that are not excluded.
ObservedFiles == SupportedFiles \cup UnsupportedFiles

\* C17: a run writes at most one row for a file, and exactly one once the
\* file has been dealt with and the store has accepted the appends for it;
\* the row names the thread that dealt with the file; every step of a run
\* that changes the table appends one row and leaves the rows before it as
\* they were; the rows of the database file disappear only in the reset.
C17_AppendOnlyLedger ==
    /\ [](\A i \in ObservedFiles :
             /\ Cardinality(RowsOf(i, run)) <= 1
             /\ ((Done(i) \/ (i \in UnsupportedFiles /\ scanned >= PositionOf(i)))
                    /\ \A x \in FaultsOf(i) : x.site \notin StoreSites)
                => Cardinality(RowsOf(i, run)) = 1)
    /\ [][Len(store') > Len(store) =>
             /\ store' = Append(store, store'[Len(store')])
             /\ LET r == store'[Len(store')] IN
                   \/ r.processing_thread = MainThread /\ pcMain = "collect"
                         /\ r.original_path = all_items[scanned + 1]
                   \/ r.processing_thread \in 1..MaxWorkers
                         /\ wpc[r.processing_thread] # "idle"
                         /\ wloc[r.processing_thread].file = r.original_path]_vars
    /\ [][(~dry_run /\ ~(Len(store') > Len(store))) =>
             \/ store' = store
             \/ store' = <<>> /\ run' = run + 1 /\ pcMain' = "done"]_vars

\* A run has ended with one row written by the scanner and one by each of
\* two workers.
C17_RowsOfThreeThreads ==
    /\ RunCompleted /\ ~dry_run
    /\ \A t \in {MainThread, 1, 2} :
          \E k \in RowIds : store[k].processing_thread = t /\ store[k].created_at = run

C19_OwnHandlePerThread ==
    \A t1, t2 \in Threads :
        (t1 # t2 /\ connections[t1] # NoConn /\ connections[t2] # NoConn)
            => connections[t1] # connections[t2]

\* Two workers hold a connection at the same time, each with a file in hand.
C19_TwoWorkersConnected ==
    /\ connections[1] # NoConn /\ connections[2] # NoConn
    /\ wpc[1] # "idle" /\ wpc[2] # "idle"

\* C20: a file for which the worker's connection or one of its appends
\* failed has exactly one row, of status error, once the worker is done
\* with it; and a run that is neither interrupted nor aborted deals with
\* every file it dispatched.
C20_StoreFailureRecorded ==
    /\ \A f \in Range(files_to_process) :
          (Done(f) /\ \E x \in FaultsOf(f) : x.site \in StoreSites) =>
              /\ Cardinality(RowsOf(f, run)) = 1
              /\ \A k \in RowsOf(f, run) : store[k].status = "error"
    /\ (pcMain \in {"cleanup", "report", "vacuum", "done"} /\ ~cancelled /\ ~fatal) =>
          \A f \in Range(files_to_process) : Done(f)

\* A run has ended in which an append failed for one file and another file
\* was recorded by its worker.
C20_AppendFailedOtherRecorded ==
    /\ RunCompleted
    /\ \E f, g \in Range(files_to_process) :
          /\ f # g
          /\ \E x \in FaultsOf(f) : x.site \in StoreSites
          /\ RowsOf(g, run) # {} /\ FaultsOf(g) = {}

ConfigError ==
    \/ ~config.keys
    \/ config.source \in {"missing", "file"}
    \/ config.relation \in {"same", "dest_in_source", "source_in_dest"}

\* C22: with a configuration error main never gets past validate_config:
\* no connection is opened and no schema created, no row is appended, no
\* item of the source is scanned or dispatched, and the destination is as
\* it was.
C22_ConfigErrorAborts ==
    ConfigError =>
        /\ pcMain \in {"validate", "aborted"}
        /\ store = <<>> /\ ~schema /\ ~initialized
        /\ \A t \in Threads : connections[t] = NoConn
        /\ scanned = 0 /\ files_to_process = <<>>
        /\ \A f \in Universe : future[f] = "none"
        /\ destFiles = (IF destExists THEN {OldFile} ELSE {})
        /\ ~report.made /\ vacuumed = 0

\* main has returned because the source lies inside the destination.
C22_NestedSourceRejected ==
    pcMain = "aborted" /\ config.relation = "source_in_dest"

\* The counters the claim compares.
ComparedCounters ==
    {"processed_files", "duplicate_files", "error_files", "unsupported_files",
     "photos_organized", "videos_organized"}

InOrder(log, rank) ==
    \A a, b \in 1..Len(log) : a < b => rank[log[a]] < rank[log[b]]

\* The order the code executes the steps in.
CodeRank ==
    [x \in {"fingerprint", "date", "placement", "duplicate_check", "duplicate_placement", "copy"} |->
        CASE x = "fingerprint" -> 1 [] x = "date" -> 2 [] x = "placement" -> 3
          [] x = "duplicate_check" -> 4 [] x = "duplicate_placement" -> 5 [] OTHER -> 6]

\* The order of the specification: the duplicate check ahead of the date
\* and of every placement decision.
StatedRank ==
    [x \in {"fingerprint", "date", "placement", "duplicate_check", "duplicate_placement", "copy"} |->
        CASE x = "fingerprint" -> 1 [] x = "duplicate_check" -> 2 [] x = "date" -> 3
          [] x = "placement" -> 4 [] x = "duplicate_placement" -> 5 [] OTHER -> 6]

\* The steps a worker has behind it when it appends the row of a file that
\* did not fail.
StepsBeforeAppend(dup) ==
    StepsOfProcess \o <<"placement", "duplicate_check">>
        \o (IF dup THEN <<"duplicate_placement">> ELSE <<>>)
        \o (IF dry_run THEN <<>> ELSE <<"copy">>)

InsertSites == {"insert", "insert417", "insert342"}

\* A row with every column its INSERT statement names.
CompleteRow(r) ==
    /\ r.original_path \in Universe
    /\ r.processing_thread \in Threads
    /\ r.status \in {"copied", "simulated", "duplicate", "error", "unsupported"}
    /\ r.status \in {"copied", "simulated", "duplicate"} =>
          /\ r.media_type \in {"PHOTO", "VIDEO"}
          /\ r.year # "NULL" /\ r.month # "NULL"
          /\ r.destination_path # <<>> /\ r.final_name # NoName
    /\ r.status \in {"error", "unsupported"} => r.notes # "NULL"

\* C25: a call of insert_file or insert_unprocessed_file either adds
\* exactly one complete row to the table, or leaves the table as it was and
\* raises to its caller (the worker goes to its handler or its future
\* fails, the scanner aborts the scan); in neither case does a row stay
\* behind uncommitted on the connection.
C25_AppendAllOrNothing ==
    /\ [](\A t \in Threads : pending[t] = <<>>)
    /\ [][Len(store') > Len(store) =>
             /\ store' = Append(store, store'[Len(store')])
             /\ CompleteRow(store'[Len(store')])
             /\ faults' = faults]_vars
    /\ [][\A x \in faults' \ faults : x.site \in InsertSites =>
             /\ store' = store
             /\ \/ fatal' /\ pcMain' = "report"
                \/ \E w \in 1..MaxWorkers :
                      /\ wloc[w].file = x.file
                      /\ \/ wpc'[w] \in {"except417", "except342"}
                         \/ future'[x.file] = "raised"]_vars

\* The INSERT of insert_file failed for a file and the handler's row for
\* the file is the only one it has.
C25_FailedAppendThenErrorRow ==
    \E f \in Range(files_to_process) :
        /\ Fault(f, "insert") \in faults
        /\ Cardinality(RowsOf(f, run)) = 1
        /\ \A k \in RowsOf(f, run) : store[k].status = "error"

\* C26: a thread has a handle only once it has used the store, and when
\* scan_directory is over, however it ended, no thread has a handle left.
C26_HandlesReleased ==
    /\ \A w \in 1..MaxWorkers :
          connections[w] # NoConn => \E f \in Universe : future[f] # "none"
    /\ pcMain \in {"report", "vacuum", "done"} =>
          \A t \in Threads : connections[t] = NoConn

\* scan_directory has ended normally and has closed the handles of the
\* scanner and of a worker.
C26_ClosedAfterCompletion ==
    /\ pcMain = "report" /\ ~cancelled /\ ~fatal
    /\ {FileConn(MainThread), FileConn(1)} \subseteq closed

\* The worker count of the specification: the configured max_workers, or
\* min(int(cpuCount * multiplier), hardLimit) with the defaults 2, 16 and 4.
StatedWorkerCount(c) ==
    IF c.parallel.max_workers # Unset
    THEN c.parallel.max_workers
    ELSE Min(((IF c.cpu_count = Unset THEN 4 ELSE c.cpu_count)
                 * (IF c.parallel.cpu_multiplier_x2 = Unset THEN 4 ELSE c.parallel.cpu_multiplier_x2))
                \div 2,
             IF c.parallel.max_workers_limit = Unset THEN 16 ELSE c.parallel.max_workers_limit)

\* C27: the pool is created, with the stated worker count, which is at
\* least 1.
C27_PoolSize ==
    pcMain \in {"processing", "report"} =>
        /\ pcMain = "processing"
        /\ max_workers = StatedWorkerCount(config)
        /\ max_workers >= 1

\* A pool has been created whose size comes from the machine: 12 CPUs,
\* multiplier 1.5, limit 16.
C27_DerivedPool ==
    /\ pcMain = "processing" /\ max_workers = 16
    /\ config.parallel.max_workers = Unset /\ config.cpu_count = 12
    /\ config.parallel.cpu_multiplier_x2 = 3

\* C28: a row of status error, and a failed future, exist only for a file
\* that an I/O fault has hit (read, mkdir, copy, connection or append); a
\* completed run without faults counts no error.
C28_ErrorOnlyFromFault ==
    /\ \A k \in RowIds :
          (store[k].status = "error" /\ store[k].created_at = run)
              => FaultsOf(store[k].original_path) # {}
    /\ \A f \in Range(files_to_process) : Failed(f) => FaultsOf(f) # {}
    /\ (RunCompleted /\ faults = {}) => stats.error_files = 0

\* A run over supported files has completed without any fault.
C28_CleanRunCompleted ==
    RunCompleted /\ faults = {} /\ files_to_process # <<>> /\ ~has_config

\* The first row of the table that carries digest h.
FirstWith(h) ==
    CHOOSE k \in RowIds :
        store[k].hash = h /\ \A j \in RowIds : store[j].hash = h => k <= j

\* C29: the first row inserted with a given non-null digest is not a
\* duplicate, and a row of status duplicate is appended only when the
\* table already holds a row with its digest.
C29_FirstRecordIsPrimary ==
    /\ [](\A h \in {store[k].hash : k \in RowIds} \ {0} :
             store[FirstWith(h)].status # "duplicate")
    /\ [][(Len(store') > Len(store) /\ store'[Len(store')].status = "duplicate") =>
             \E k \in RowIds :
                store[k].hash = store'[Len(store')].hash /\ store[k].hash # 0]_vars

\* Two workers have recorded two files with the same bytes, the second row
\* as a duplicate of the first.
C29_DuplicateAfterPrimary ==
    \E j, k \in RowIds :
        /\ j < k /\ store[j].hash = store[k].hash /\ store[j].hash # 0
        /\ store[j].status # "duplicate" /\ store[k].status = "duplicate"
        /\ store[j].processing_thread # store[k].processing_thread

\* The files of files_to_process, ahead of position p, with the bytes of
\* the file at p.
EarlierSameBytes(p) ==
    {q \in 1..(p - 1) :
        ItemOf(files_to_process[q]).content = ItemOf(files_to_process[p]).content}

\* C30: with one worker, at the end of a completed first run without
\* faults, the first file with given bytes has a row of status copied
\* (simulated in a dry run) and every later file with those bytes a row of
\* status duplicate.
C30_SingleWorkerExact ==
    (max_workers = 1 /\ RunCompleted /\ run = 1 /\ faults = {}) =>
        \A p \in 1..Len(files_to_process) :
            /\ Cardinality(RowsOf(files_to_process[p], run)) = 1
            /\ \A k \in RowsOf(files_to_process[p], run) :
                  store[k].status = IF EarlierSameBytes(p) # {} THEN "duplicate"
                                    ELSE IF dry_run THEN "simulated" ELSE "copied"

\* One worker has completed a run without faults over three files with
\* the same bytes.
C30_ThreeSameBytes ==
    /\ max_workers = 1 /\ RunCompleted /\ run = 1 /\ faults = {}
    /\ Len(files_to_process) = 3
    /\ \A p \in 1..3 : ItemOf(files_to_process[p]).content = 1


(***************************************************************************)
(* Locks: who holds, who waits.                                            *)
(***************************************************************************)
Holds(t, lock) == locks[lock] = t

\* Thread t stands before a with-block of the lock and the lock is taken.
WaitsFor(t, lock) ==
    /\ locks[lock] # Free
    /\ \/ /\ t \in 1..MaxWorkers
          /\ \/ lock = "_db_lock" /\ wpc[t] \in DbLockSites
             \/ lock = "_connection_lock" /\ wpc[t] \in ConnLockSites
       \/ t = MainThread /\ lock = "_connection_lock" /\ pcMain = "cleanup"

\* t cannot go on before u releases a lock.
Blocks(t, u) == \E lock \in LockNames : WaitsFor(t, lock) /\ Holds(u, lock)

CyclicWait ==
    \E t, u \in Threads :
        /\ Blocks(t, u)
        /\ \/ u = t
           \/ Blocks(u, t)
           \/ \E v \in Threads : Blocks(u, v) /\ Blocks(v, t)

\* C31: _process_files_parallel terminates under fair scheduling, also when
\* interrupted; no set of threads waits in a cycle for _db_lock and
\* _connection_lock; `completed` changes only by one, for a finished future
\* that had not been yielded before; and when the loop returns normally
\* completed is the number of files dispatched, and so is processed +
\* duplicates + errors.
C31_CompletedExactlyOnce ==
    /\ (pcMain = "processing") ~> (pcMain \notin {"processing", "draining"})
    /\ [](~CyclicWait)
    /\ [][completed' # completed =>
             /\ completed' = completed + 1
             /\ \E f \in Range(files_to_process) \ yielded :
                   /\ future[f] \in {"copied", "simulated", "duplicate", "error", "raised"}
                   /\ yielded' = yielded \cup {f}]_vars
    /\ [](pcMain = "cleanup" =>
             /\ completed = Len(files_to_process)
             /\ stats.processed_files + stats.duplicate_files + stats.error_files
                   = Len(files_to_process))

\* The loop has returned normally with three files counted, one of each
\* kind of outcome among them.
C31_AllCounted ==
    /\ pcMain = "cleanup" /\ completed = 3
    /\ stats.processed_files > 0 /\ stats.duplicate_files > 0 /\ stats.error_files > 0

\* A worker inside _db_lock waits for _connection_lock, which another
\* worker holds.
C31_NestedLockWait ==
    \E w, u \in 1..MaxWorkers :
        /\ w # u
        /\ Holds(w, "_db_lock") /\ WaitsFor(w, "_connection_lock")
        /\ Holds(u, "_connection_lock")


\* The files of the destination that are copies of source file f.
CopiesOf(f) == {g \in destFiles : g.src = f}

FreshDecision(p) ==
    LET f == files_to_process[p] IN
        IF ~has_config
        THEN [status |-> "error", dir |-> <<>>]
        ELSE IF EarlierSameBytes(p) # {}
        THEN [status |-> "duplicate", dir |-> DuplicateDir(MediaType(f))]
        ELSE [status |-> "copied", dir |-> DestDir(MediaType(f), YearOf(f), MonthOf(f))]

\* A Fresh status with copied replaced by simulated.
AsDryRun(status) == IF status = "copied" THEN "simulated" ELSE status

\* C33: for the same source files taken in the same order (one worker) from
\* an empty store and without faults, the status a Dry-Run gives each file is
\* the status a Fresh run gives it with copied replaced by simulated, and the
\* destination directory recorded is the same: both are the decision derived
\* from the source, in which the mode has no part.
C33_DryRunDecidesAsFresh ==
    (max_workers = 1 /\ run = 1 /\ faults = {}) =>
        \A p \in 1..Len(files_to_process) :
            \A k \in RowsOf(files_to_process[p], run) :
                /\ store[k].status = IF dry_run THEN AsDryRun(FreshDecision(p).status)
                                     ELSE FreshDecision(p).status
                /\ store[k].destination_path = FreshDecision(p).dir

\* A dry run of one worker has recorded three files without a fault: the
\* first simulated in its dated directory, the two after it duplicates.
C33_DryRunOfThree ==
    /\ dry_run /\ max_workers = 1 /\ run = 1 /\ faults = {} /\ RunCompleted
    /\ Len(files_to_process) = 3
    /\ \E i, j, k \in RowIds :
          /\ i < j /\ j < k
          /\ store[i].status = "simulated" /\ store[i].destination_path = <<"PHOTO", "2020", "05">>
          /\ store[j].status = "duplicate"
          /\ store[k].status = "duplicate"


InsideInsert ==
    {w \in 1..MaxWorkers :
        wpc[w] \in {"insert_locked", "except417_locked", "except342_locked", "except342_connect"}}

\* At most one thread is inside insert_file or insert_unprocessed_file, and
\* it holds _db_lock: a worker's rows are written by the worker that holds
\* the lock, the scanner's while no worker runs and the lock is not taken.
AppendsExclusive ==
    /\ [](/\ Cardinality(InsideInsert) <= 1
          /\ \A w \in InsideInsert : Holds(w, "_db_lock"))
    /\ [][(Len(store') > Len(store) \/ pending' # pending) =>
             \/ \E w \in InsideInsert :
                   /\ Holds(w, "_db_lock")
                   /\ wpc'[w] # wpc[w]
                   /\ \A u \in 1..MaxWorkers \ {w} : wpc'[u] = wpc[u]
             \/ /\ pcMain = "collect"
                /\ locks["_db_lock"] = Free
                /\ \A w \in 1..MaxWorkers : wpc[w] = "idle"]_vars

\* self.stats is changed by steps of the main thread only.
StatsByMainThread == [][stats' # stats => wpc' = wpc /\ wloc' = wloc]_vars

\* The statement of C35 as given: every change of self.stats is made
\* inside a with-block of _progress_lock.
C35_StatedAllUnderProgressLock ==
    /\ AppendsExclusive
    /\ StatsByMainThread
    /\ [][stats' # stats => Holds(MainThread, "_progress_lock")']_vars

\* C35: the appends of the scanner and of the workers are mutually
\* exclusive, each made while holding _db_lock; self.stats is changed by the
\* main thread only; the counters of the outcomes are changed inside a
\* with-block of _progress_lock, and total_files and unsupported_files are
\* assigned without the lock, at the end of the scan, before any work item is
\* taken by a worker.
C35_AppendsExclusiveStatsByMain ==
    /\ AppendsExclusive
    /\ StatsByMainThread
    /\ [][stats' # stats =>
             \/ /\ Holds(MainThread, "_progress_lock")'
                /\ stats'.total_files = stats.total_files
                /\ stats'.unsupported_files = stats.unsupported_files
             \/ /\ pcMain = "collect"
                /\ locks["_progress_lock"] = Free /\ locks' = locks
                /\ \A w \in 1..MaxWorkers : wpc[w] = "idle"
                /\ \A c \in DOMAIN stats \ {"total_files", "unsupported_files"} :
                      stats'[c] = stats[c]]_vars

\* One worker is inside insert_file holding _db_lock, the other has copied
\* its file and waits for the lock, while the main thread is inside
\* _progress_lock with a counter updated.
C35_OneInsideOneWaiting ==
    /\ \E w, u \in 1..MaxWorkers :
          /\ wpc[w] = "insert_locked" /\ Holds(w, "_db_lock")
          /\ wpc[u] = "insert" /\ WaitsFor(u, "_db_lock")
    /\ Holds(MainThread, "_progress_lock")
    /\ stats.processed_files > 0


\* The threads inside the with-block of _global_lock in create_db.
InsideCreateDb == {t \in Threads : create_pc[t] \in {"locked", "initializing"}}

\* C36: for a durable store and any number of threads calling create_db at
\* once, the schema is initialised exactly once per DatabaseManager
\* (_initialize_schema completes only while _initialized is unset, sets it,
\* and it is never unset again), inside _global_lock, and it is complete
\* before create_db returns a handle: every handle held sees table files, and
\* no statement through a handle meets a missing table.
C36_SchemaOnceBeforeAnyHandle ==
    /\ [](/\ Cardinality(InsideCreateDb) <= 1
          /\ \A t \in InsideCreateDb : Holds(t, "_global_lock")
          /\ initialized => schema
          /\ \A t \in Threads :
                /\ connections[t] # NoConn => initialized /\ schema
                /\ create_pc[t] = "initializing" => ~initialized
                /\ create_pc[t] # "no_table")
    /\ [][initialized => initialized']_vars
    /\ [][\A t \in Threads :
             (create_pc[t] = "initializing" /\ create_pc'[t] = "returned") =>
                 ~initialized /\ initialized' /\ schema']_vars

\* On a database file without tables, one thread was the one to initialise
\* the schema (after a first attempt failed), and two other threads hold
\* handles they got meanwhile: one has used its handle, one waited at the
\* lock while the schema was created.
C36_ThreeCallersOneInit ==
    /\ \A t \in Threads : connections[t] # NoConn
    /\ \E t \in Threads : Fault(t, "schema") \in faults
    /\ \E t \in Threads : create_pc[t] = "used"
    /\ initialized /\ schema

=============================================================================
